---- MODULE Spec2Model ----
(***************************************************************************)
(* Huffman codec of Encoding.cpp: buildFrequencyTable, buildEncodingTree,  *)
(* buildTree, buildEncodingMap, encodeData, decodeData, compress and       *)
(* decompress, modelled as one state machine that compresses an input and  *)
(* then decompresses the produced file.                                    *)
(***************************************************************************)
EXTENDS Integers, Sequences, FiniteSets, TLC

\* Longest input stream explored.
MaxLen == 3

\* Byte values the input stream is drawn from (0 is NUL, 97 is 'a', 200 is
\* a byte above 127).
Bytes == {0, 97, 200}

PSEUDO_EOF == 256
NOT_A_CHAR == 257
NULL == 0
BitsPerByte == 8

\* One heap cell per node a tree over Bytes and PSEUDO_EOF can need.
ArenaSize == 2 * (Cardinality(Bytes) + 1) - 1

EmptyMap == << >>

(***************************************************************************)
(* Conversions                                                             *)
(***************************************************************************)

\* int -> char (char is signed and 8 bits wide): what "char ch" holds.
ToChar(i) == LET m == i % 256 IN IF m >= 128 THEN m - 256 ELSE m

\* char -> byte written by ostream::put.
ToByte(c) == c % 256

\* charToInteger on the digits of a code string.
charToInteger(c) == CASE c = "0" -> 0 [] c = "1" -> 1

(***************************************************************************)
(* Map<K,V>                                                                *)
(***************************************************************************)

\* Map::get: the value of key, or the value type's default when absent.
MapGet(map, key, default) == IF key \in DOMAIN map THEN map[key] ELSE default

\* map[key] = value
MapPut(map, key, value) ==
    [k \in (DOMAIN map) \cup {key} |-> IF k = key THEN value ELSE map[k]]

\* Map::keys(): the keys in ascending order.
RECURSIVE SortedSeq(_)
SortedSeq(S) ==
    IF S = {} THEN << >>
    ELSE LET m == CHOOSE x \in S : \A y \in S : x <= y
         IN  <<m>> \o SortedSeq(S \ {m})

MapKeys(map) == SortedSeq(DOMAIN map)

(***************************************************************************)
(* buildFrequencyTable                                                     *)
(***************************************************************************)

\* table[ch]++
Increment(table, key) == MapPut(table, key, MapGet(table, key, 0) + 1)

RECURSIVE CountChars(_, _, _)
CountChars(in, i, table) ==
    IF i > Len(in) THEN table
    ELSE CountChars(in, i + 1, Increment(table, ToChar(in[i])))

buildFrequencyTable(in) == Increment(CountChars(in, 1, EmptyMap), PSEUDO_EOF)

(***************************************************************************)
(* Header: output << freqTable and input >> freqTable                      *)
(***************************************************************************)

\* The entries as (key, count) pairs in key order.
Serialize(table) ==
    LET ks == MapKeys(table)
    IN  [i \in 1..Len(ks) |-> <<ks[i], table[ks[i]]>>]

\* The map read back from the pairs, a later pair overwriting an earlier one.
RECURSIVE ReadPairs(_, _, _)
ReadPairs(pairs, i, table) ==
    IF i > Len(pairs) THEN table
    ELSE ReadPairs(pairs, i + 1, MapPut(table, pairs[i][1], pairs[i][2]))

Deserialize(pairs) == ReadPairs(pairs, 1, EmptyMap)

(***************************************************************************)
(* Heap of HuffmanNode and PriorityQueue<HuffmanNode*>                     *)
(***************************************************************************)

FreeCell ==
    [used |-> FALSE, character |-> 0, count |-> 0, zero |-> NULL, one |-> NULL]

EmptyHeap == [a \in 1..ArenaSize |-> FreeCell]

\* new HuffmanNode: an unused address; the allocator hands addresses out
\* from the bottom or from the top of the arena.
New(h, dir) ==
    LET free == {a \in DOMAIN h : ~h[a].used}
    IN  IF dir = "up" THEN CHOOSE a \in free : \A b \in free : a <= b
        ELSE CHOOSE a \in free : \A b \in free : a >= b

\* PriorityQueue::enqueue: lowest priority first, and among equal
\* priorities the element enqueued first stays in front.
Enqueue(q, value, priority) ==
    LET k == Cardinality({i \in DOMAIN q : q[i].priority <= priority})
    IN  SubSeq(q, 1, k) \o <<[value |-> value, priority |-> priority]>>
          \o SubSeq(q, k + 1, Len(q))

\* The queue after one dequeue.
Dequeue(q) == Tail(q)

\* PriorityQueue::peek / front.
Front(q) == q[1].value

(***************************************************************************)
(* buildEncodingTree and buildTree                                         *)
(***************************************************************************)

\* One iteration of the loop of buildEncodingTree: a leaf for key.
NewLeafByKey(h, q, table, key, dir) ==
    LET node == New(h, dir)
        cell == [used |-> TRUE, character |-> key, count |-> table[key],
                 zero |-> NULL, one |-> NULL]
    IN  [heap |-> [h EXCEPT ![node] = cell],
         queue |-> Enqueue(q, node, cell.character)]

NewLeafStep(h, q, table, key, dir) ==
    LET node == New(h, dir)
        cell == [used |-> TRUE, character |-> key, count |-> table[key],
                 zero |-> NULL, one |-> NULL]
    IN  [heap |-> [h EXCEPT ![node] = cell],
         queue |-> Enqueue(q, node, cell.count)]

\* The merge of buildTree, taken when the queue holds two nodes or more.
MergeChildrenByAddress(h, q, dir) ==
    LET parent == New(h, dir)
        a == Front(q)
        b == Front(Dequeue(q))
        child1 == IF a <= b THEN a ELSE b
        child2 == IF a <= b THEN b ELSE a
        cell == [used |-> TRUE, character |-> NOT_A_CHAR,
                 count |-> h[child1].count + h[child2].count,
                 zero |-> child1, one |-> child2]
    IN  [heap |-> [h EXCEPT ![parent] = cell],
         queue |-> Enqueue(Dequeue(Dequeue(q)), parent, cell.count)]

MergeForgetsSum(h, q, dir) ==
    LET parent == New(h, dir)
        child1 == Front(q)
        child2 == Front(Dequeue(q))
        cell == [used |-> TRUE, character |-> NOT_A_CHAR,
                 count |-> h[child1].count,
                 zero |-> child1, one |-> child2]
    IN  [heap |-> [h EXCEPT ![parent] = cell],
         queue |-> Enqueue(Dequeue(Dequeue(q)), parent, cell.count)]

MergeStep(h, q, dir) ==
    LET parent == New(h, dir)
        child1 == Front(q)
        child2 == Front(Dequeue(q))
        cell == [used |-> TRUE, character |-> NOT_A_CHAR,
                 count |-> h[child1].count + h[child2].count,
                 zero |-> child1, one |-> child2]
    IN  [heap |-> [h EXCEPT ![parent] = cell],
         queue |-> Enqueue(Dequeue(Dequeue(q)), parent, cell.count)]

\* What buildTree returns once the queue holds at most one node.
BuildTreeResult(q) == IF Len(q) = 0 THEN NULL ELSE Front(q)

\* buildTree run to completion.
RECURSIVE buildTree(_, _, _)
buildTree(h, q, dir) ==
    IF Len(q) <= 1 THEN [heap |-> h, root |-> BuildTreeResult(q)]
    ELSE LET s == MergeStep(h, q, dir) IN buildTree(s.heap, s.queue, dir)

\* buildEncodingTree run to completion.
RECURSIVE SeedQueue(_, _, _, _, _)
SeedQueue(h, q, table, keys, dir) ==
    IF keys = << >> THEN [heap |-> h, queue |-> q]
    ELSE LET s == NewLeafStep(h, q, table, Head(keys), dir)
         IN  SeedQueue(s.heap, s.queue, table, Tail(keys), dir)

buildEncodingTree(table, dir) ==
    LET s == SeedQueue(EmptyHeap, << >>, table, MapKeys(table), dir)
    IN  buildTree(s.heap, s.queue, dir)

(***************************************************************************)
(* freeTree                                                                *)
(***************************************************************************)

RECURSIVE freeTree(_, _)
freeTree(h, node) ==
    IF node = NULL THEN h
    ELSE LET h0 == freeTree(h, h[node].zero)
             h1 == freeTree(h0, h[node].one)
         IN  [h1 EXCEPT ![node] = FreeCell]

(***************************************************************************)
(* buildEncodingMap                                                        *)
(***************************************************************************)

\* Whether the node gets an entry of the map.
RecordsCode(h, node) == h[node].character # NOT_A_CHAR

\* The string handed down to the one child.
OneAlsoZero(encoding) == Append(encoding, "0")

OneSuffix(encoding) == Append(encoding, "1")

RECURSIVE buildMapRec(_, _, _, _)
buildMapRec(map, h, node, encoding) ==
    IF node = NULL THEN map
    ELSE LET m0 == buildMapRec(map, h, h[node].zero, Append(encoding, "0"))
             m1 == buildMapRec(m0, h, h[node].one, OneSuffix(encoding))
         IN  IF RecordsCode(h, node)
             THEN MapPut(m1, h[node].character, encoding)
             ELSE m1

buildEncodingMap(h, encodingTree) == buildMapRec(EmptyMap, h, encodingTree, << >>)

(***************************************************************************)
(* writeBits                                                               *)
(***************************************************************************)

\* The bits writeBits(output, ch) appends: the argument is converted to
\* char, and the code is looked up in the map named encodingMap at
\* namespace scope.
writeBits(globalMap, arg) ==
    LET ch == ToChar(arg)
        code == MapGet(globalMap, ch, << >>)
    IN  [i \in 1..Len(code) |-> charToInteger(code[i])]

(***************************************************************************)
(* Bit streams                                                             *)
(***************************************************************************)

\* ibitstream: the bits that remain to be read, which is what the loop of
\* decodeData tests with input.size().
BitsRemaining(bits, pos) == Len(bits) - pos

\* The bits of the file once the bit sink is closed: the last byte is
\* filled up with the bit fill.
Pad(bits, fill) ==
    bits \o [i \in 1..((BitsPerByte - (Len(bits) % BitsPerByte)) % BitsPerByte) |-> fill]

(***************************************************************************)
(* State                                                                   *)
(***************************************************************************)

VARIABLES
    input,          \* the bytes of the stream handed to compress
    encodingMap,    \* the Map<int, string> at namespace scope writeBits reads
    pc,             \* the statement the running operation is at
    mode,           \* "compress" or "decompress": who called buildEncodingTree
    inPos,          \* read position of the input stream
    freqTable,      \* freqTable of compress / of decompress
    keys,           \* keys buildEncodingTree has still to visit
    queue,          \* the PriorityQueue of buildEncodingTree
    heap,           \* the HuffmanNode objects
    allocDir,       \* how the allocator hands out addresses during this build
    tree,           \* tree of compress / of decompress
    localMap,       \* the local encodingMap of compress
    header,         \* what compress wrote with output << freqTable
    payload,        \* the bits compress wrote with writeBit
    built,          \* the table and the tree compress built, as it returned
    tamper,         \* what happened to the file before decompress read it
    dHeader,        \* the header of the file decompress reads
    dBits,          \* the bits after the header of that file
    bitPos,         \* the bits decodeData has read
    node,           \* node of decodeData
    output          \* the bytes decompress has put on its ostream

vars == <<input, encodingMap, pc, mode, inPos, freqTable, keys, queue, heap,
          allocDir, tree, localMap, header, payload, built, tamper, dHeader,
          dBits, bitPos, node, output>>

Inputs == UNION {[1..n -> Bytes] : n \in 0..MaxLen}

\* The tree below root, as the set of its nodes, each with the path of
\* bits that leads to it.
RECURSIVE Shape(_, _, _)
Shape(h, n, path) ==
    IF n = NULL THEN {}
    ELSE {[path |-> path, character |-> h[n].character, count |-> h[n].count]}
           \cup Shape(h, h[n].zero, Append(path, 0))
           \cup Shape(h, h[n].one, Append(path, 1))

\* The code table a caller holds for this input.
TableFor(in) ==
    LET t == buildEncodingTree(buildFrequencyTable(in), "up")
    IN  buildEncodingMap(t.heap, t.root)

NoTree == [table |-> EmptyMap, shape |-> {}]

\* The namespace-scope map is default-constructed (empty) and no statement
\* of Encoding.cpp assigns it; a caller may have stored the input's table.
Init ==
    /\ input \in Inputs
    /\ encodingMap \in {EmptyMap, TableFor(input)}
    /\ pc = "c_freq"
    /\ mode = "compress"
    /\ inPos = 0
    /\ freqTable = EmptyMap
    /\ keys = << >>
    /\ queue = << >>
    /\ heap = EmptyHeap
    /\ allocDir = "up"
    /\ tree = NULL
    /\ localMap = EmptyMap
    /\ header = << >>
    /\ payload = << >>
    /\ built = NoTree
    /\ tamper = "none"
    /\ dHeader = << >>
    /\ dBits = << >>
    /\ bitPos = 0
    /\ node = NULL
    /\ output = << >>

(***************************************************************************)
(* compress                                                                *)
(***************************************************************************)

\* compress: auto freqTable = buildFrequencyTable(input)
CompressCount ==
    /\ pc = "c_freq"
    /\ freqTable' = buildFrequencyTable(input)
    /\ inPos' = Len(input)
    /\ pc' = "c_header"
    /\ UNCHANGED <<input, encodingMap, mode, keys, queue, heap, allocDir, tree,
                   localMap, header, payload, built, tamper, dHeader, dBits,
                   bitPos, node, output>>

\* compress: rewindStream(input); output << freqTable
CompressHeader ==
    /\ pc = "c_header"
    /\ inPos' = 0
    /\ header' = Serialize(freqTable)
    /\ pc' = "tree"
    /\ UNCHANGED <<input, encodingMap, mode, freqTable, keys, queue, heap,
                   allocDir, tree, localMap, payload, built, tamper, dHeader,
                   dBits, bitPos, node, output>>

(***************************************************************************)
(* buildEncodingTree, called by compress and by decompress                 *)
(***************************************************************************)

\* PriorityQueue<HuffmanNode*> queue; Vector<int> keys = freqTable.keys()
TreeEnter ==
    /\ pc = "tree"
    /\ queue' = << >>
    /\ keys' = MapKeys(freqTable)
    /\ allocDir' \in {"up", "down"}
    /\ pc' = "leaves"
    /\ UNCHANGED <<input, encodingMap, mode, inPos, freqTable, heap, tree,
                   localMap, header, payload, built, tamper, dHeader, dBits,
                   bitPos, node, output>>

\* one iteration of for (int key : keys)
TreeLeaf ==
    /\ pc = "leaves"
    /\ keys # << >>
    /\ LET s == NewLeafStep(heap, queue, freqTable, Head(keys), allocDir)
       IN  /\ heap' = s.heap
           /\ queue' = s.queue
    /\ keys' = Tail(keys)
    /\ UNCHANGED <<input, encodingMap, pc, mode, inPos, freqTable, allocDir,
                   tree, localMap, header, payload, built, tamper, dHeader,
                   dBits, bitPos, node, output>>

\* return buildTree(queue): the call
TreeCall ==
    /\ pc = "leaves"
    /\ keys = << >>
    /\ pc' = "merge"
    /\ UNCHANGED <<input, encodingMap, mode, inPos, freqTable, keys, queue,
                   heap, allocDir, tree, localMap, header, payload, built,
                   tamper, dHeader, dBits, bitPos, node, output>>

\* buildTree with two nodes or more in the queue: merge and recurse
TreeMerge ==
    /\ pc = "merge"
    /\ Len(queue) >= 2
    /\ LET s == MergeStep(heap, queue, allocDir)
       IN  /\ heap' = s.heap
           /\ queue' = s.queue
    /\ UNCHANGED <<input, encodingMap, pc, mode, inPos, freqTable, keys,
                   allocDir, tree, localMap, header, payload, built, tamper,
                   dHeader, dBits, bitPos, node, output>>

\* buildTree with at most one node in the queue: the recursion returns, the
\* queue goes out of scope and the caller stores the result in tree
TreeReturn ==
    /\ pc = "merge"
    /\ Len(queue) <= 1
    /\ tree' = BuildTreeResult(queue)
    /\ queue' = << >>
    /\ IF mode = "compress"
       THEN /\ pc' = "c_map"
            /\ built' = [table |-> freqTable,
                         shape |-> Shape(heap, BuildTreeResult(queue), << >>)]
       ELSE /\ pc' = "d_decode"
            /\ built' = built
    /\ UNCHANGED <<input, encodingMap, mode, inPos, freqTable, keys, heap,
                   allocDir, localMap, header, payload, tamper, dHeader, dBits,
                   bitPos, node, output>>

(***************************************************************************)
(* compress, continued                                                     *)
(***************************************************************************)

\* compress: auto encodingMap = buildEncodingMap(tree), a local of compress
CompressMap ==
    /\ pc = "c_map"
    /\ localMap' = buildEncodingMap(heap, tree)
    /\ pc' = "c_encode"
    /\ UNCHANGED <<input, encodingMap, mode, inPos, freqTable, keys, queue,
                   heap, allocDir, tree, header, payload, built, tamper,
                   dHeader, dBits, bitPos, node, output>>

\* encodeData: while (input.get(ch)) writeBits(output, ch)
EncodeChar ==
    /\ pc = "c_encode"
    /\ inPos < Len(input)
    /\ payload' = payload \o writeBits(encodingMap, input[inPos + 1])
    /\ inPos' = inPos + 1
    /\ UNCHANGED <<input, encodingMap, pc, mode, freqTable, keys, queue, heap,
                   allocDir, tree, localMap, header, built, tamper, dHeader,
                   dBits, bitPos, node, output>>

\* encodeData: writeBits(output, PSEUDO_EOF) once the input is exhausted
EncodeEof ==
    /\ pc = "c_encode"
    /\ inPos = Len(input)
    /\ payload' = payload \o writeBits(encodingMap, PSEUDO_EOF)
    /\ pc' = "c_free"
    /\ UNCHANGED <<input, encodingMap, mode, inPos, freqTable, keys, queue,
                   heap, allocDir, tree, localMap, header, built, tamper,
                   dHeader, dBits, bitPos, node, output>>

\* compress: freeTree(tree); tree = nullptr; the locals go out of scope
CompressFree ==
    /\ pc = "c_free"
    /\ heap' = freeTree(heap, tree)
    /\ tree' = NULL
    /\ pc' = "c_done"
    /\ UNCHANGED <<input, encodingMap, mode, inPos, freqTable, keys, queue,
                   allocDir, localMap, header, payload, built, tamper, dHeader,
                   dBits, bitPos, node, output>>

(***************************************************************************)
(* The file between compress and decompress                                *)
(***************************************************************************)

\* The caller closes the bit sink, which fills up the last byte, and hands
\* the file to decompress: as written, cut short after n bits, or with a
\* header that holds no entry.
Deliver ==
    /\ pc = "c_done"
    /\ \/ \E fill \in {0, 1} :
            LET bits == Pad(payload, fill)
            IN  \E n \in 0..Len(bits) :
                    /\ dBits' = SubSeq(bits, 1, n)
                    /\ dHeader' = header
                    /\ tamper' = IF n = Len(bits) THEN "none" ELSE "truncated"
       \/ /\ dBits' = Pad(payload, 0)
          /\ dHeader' = << >>
          /\ tamper' = "emptyHeader"
    /\ mode' = "decompress"
    /\ freqTable' = EmptyMap
    /\ localMap' = EmptyMap
    /\ pc' = "d_header"
    /\ UNCHANGED <<input, encodingMap, inPos, keys, queue, heap, allocDir,
                   tree, header, payload, built, bitPos, node, output>>

(***************************************************************************)
(* decompress                                                              *)
(***************************************************************************)

\* decompress: Map<int, int> freqTable; input >> freqTable
DecompressHeader ==
    /\ pc = "d_header"
    /\ freqTable' = Deserialize(dHeader)
    /\ pc' = "tree"
    /\ UNCHANGED <<input, encodingMap, mode, inPos, keys, queue, heap,
                   allocDir, tree, localMap, header, payload, built, tamper,
                   dHeader, dBits, bitPos, node, output>>

\* Whether the node holds PSEUDO_EOF, the test of decodeData for the marker.
IsNotMarker(h, n) == FALSE

IsMarker(h, n) == h[n].character = PSEUDO_EOF

\* The node the bit leads to: the zero child on 0, the one child on 1.
Child(h, n, bit) ==
    IF bit = 0 THEN h[n].zero ELSE IF bit = 1 THEN h[n].one ELSE n

\* The rest of one iteration of the loop of decodeData, at the node next.
Visit(h, root, next, out) ==
    IF IsMarker(h, next)
    THEN [node |-> next, output |-> out, break |-> TRUE]
    ELSE IF h[next].character # NOT_A_CHAR
         THEN [node |-> root,
               output |-> Append(out, ToByte(h[next].character)),
               break |-> FALSE]
         ELSE [node |-> next, output |-> out, break |-> FALSE]

\* decodeData: node = encodingTree, and return at once if it holds PSEUDO_EOF.
\* With a null encodingTree the read of node->character is undefined: the
\* process is killed, or the read yields some value.
DecodeEnter ==
    /\ pc = "d_decode"
    /\ node' = tree
    /\ IF tree = NULL
       THEN pc' \in {"crashed", "d_free", "d_loop"}
       ELSE pc' = IF IsMarker(heap, tree) THEN "d_free" ELSE "d_loop"
    /\ UNCHANGED <<input, encodingMap, mode, inPos, freqTable, keys, queue,
                   heap, allocDir, tree, localMap, header, payload, built,
                   tamper, dHeader, dBits, bitPos, output>>

\* decodeData: one iteration of while (input.size() != 0), the bit source
\* reporting the bits that remain. Following a null pointer is undefined:
\* the process is killed, or the loop goes on or ends on the value read.
DecodeBit ==
    /\ pc = "d_loop"
    /\ BitsRemaining(dBits, bitPos) # 0
    /\ bitPos' = bitPos + 1
    /\ LET bit == dBits[bitPos + 1]
           next == IF node = NULL THEN NULL ELSE Child(heap, node, bit)
       IN  IF next = NULL
           THEN /\ pc' \in {"crashed", "d_free", "d_loop"}
                /\ node' = NULL
                /\ output' = output
           ELSE LET r == Visit(heap, tree, next, output)
                IN  /\ node' = r.node
                    /\ output' = r.output
                    /\ pc' = IF r.break THEN "d_free" ELSE "d_loop"
    /\ UNCHANGED <<input, encodingMap, mode, inPos, freqTable, keys, queue,
                   heap, allocDir, tree, localMap, header, payload, built,
                   tamper, dHeader, dBits>>

\* decodeData: the bit source is exhausted, the loop ends and decodeData
\* returns
DecodeExhausted ==
    /\ pc = "d_loop"
    /\ BitsRemaining(dBits, bitPos) = 0
    /\ pc' = "d_free"
    /\ UNCHANGED <<input, encodingMap, mode, inPos, freqTable, keys, queue,
                   heap, allocDir, tree, localMap, header, payload, built,
                   tamper, dHeader, dBits, bitPos, node, output>>

\* decompress: freeTree(tree); tree = nullptr
DecompressFree ==
    /\ pc = "d_free"
    /\ heap' = freeTree(heap, tree)
    /\ tree' = NULL
    /\ node' = NULL
    /\ pc' = "d_done"
    /\ UNCHANGED <<input, encodingMap, mode, inPos, freqTable, keys, queue,
                   allocDir, localMap, header, payload, built, tamper, dHeader,
                   dBits, bitPos, output>>

Next ==
    \/ CompressCount
    \/ CompressHeader
    \/ TreeEnter
    \/ TreeLeaf
    \/ TreeCall
    \/ TreeMerge
    \/ TreeReturn
    \/ CompressMap
    \/ EncodeChar
    \/ EncodeEof
    \/ CompressFree
    \/ Deliver
    \/ DecompressHeader
    \/ DecodeEnter
    \/ DecodeBit
    \/ DecodeExhausted
    \/ DecompressFree

Spec == Init /\ [][Next]_vars

(***************************************************************************)
(* Helpers of the properties                                               *)
(***************************************************************************)

\* The bits of a code string.
CodeBits(code) == [i \in 1..Len(code) |-> charToInteger(code[i])]

IsPrefix(a, b) == Len(a) <= Len(b) /\ SubSeq(b, 1, Len(a)) = a

\* The codes of the symbols in[i..], looked up in map, one after the other.
RECURSIVE ConcatCodes(_, _, _)
ConcatCodes(map, in, i) ==
    IF i > Len(in) THEN << >>
    ELSE CodeBits(MapGet(map, ToChar(in[i]), << >>)) \o ConcatCodes(map, in, i + 1)

\* The node reached from n by following bits.
RECURSIVE Walk(_, _, _)
Walk(h, n, bits) ==
    IF bits = << >> \/ n = NULL THEN n
    ELSE Walk(h, IF Head(bits) = 0 THEN h[n].zero ELSE h[n].one, Tail(bits))

RECURSIVE SumCounts(_, _)
SumCounts(table, ks) ==
    IF ks = {} THEN 0
    ELSE LET k == CHOOSE x \in ks : TRUE
         IN  table[k] + SumCounts(table, ks \ {k})

Building == pc \in {"leaves", "merge"}
TreeAlive == pc \in {"c_map", "c_encode", "c_free", "d_decode", "d_loop", "d_free"}
MapBuilt == pc \in {"c_encode", "c_free"}

MaxCount == CHOOSE c \in {freqTable[k] : k \in DOMAIN freqTable} :
                \A k \in DOMAIN freqTable : freqTable[k] <= c
MinCount == CHOOSE c \in {freqTable[k] : k \in DOMAIN freqTable} :
                \A k \in DOMAIN freqTable : freqTable[k] >= c

(***************************************************************************)
(* C1  Round trip: decompress of the file compress wrote, handed over      *)
(* as written, puts out exactly the bytes of the input.                    *)
(***************************************************************************)
C1_RoundTrip == (pc = "d_done" /\ tamper = "none") => output = input

(***************************************************************************)
(* C2  Encoder payload: when encodeData has returned, the bits written are *)
(* the codes of the input symbols in input order, taken from the code      *)
(* table built from the input's frequency table, followed by the code of   *)
(* PSEUDO_EOF, and nothing else.                                           *)
(***************************************************************************)
C2_PayloadIsCodesThenEof ==
    pc = "c_free" =>
        payload = ConcatCodes(localMap, input, 1)
                    \o CodeBits(MapGet(localMap, PSEUDO_EOF, << >>))

(***************************************************************************)
(* C3  Truncated payload: decodeData does not return normally from a file  *)
(* with its header intact and its payload cut short when the bits ran out  *)
(* before the leaf of PSEUDO_EOF was reached.                              *)
(***************************************************************************)
C3_TruncatedRejected ==
    (pc = "d_free" /\ tamper = "truncated" /\ node # NULL)
        => heap[node].character = PSEUDO_EOF

C5_PrefixFree ==
    (MapBuilt /\ Cardinality(DOMAIN freqTable) >= 2) =>
        /\ DOMAIN localMap = DOMAIN freqTable
        /\ \A k \in DOMAIN localMap : Len(localMap[k]) > 0
        /\ \A k1, k2 \in DOMAIN localMap :
               k1 # k2 => ~IsPrefix(localMap[k1], localMap[k2])

C5_Witness ==
    /\ MapBuilt
    /\ Cardinality(DOMAIN freqTable) >= 4
    /\ \A k \in DOMAIN localMap : Len(localMap[k]) >= 2

(***************************************************************************)
(* C6  Empty frequency table: decompress does not enter decodeData with a  *)
(* null tree.                                                              *)
(***************************************************************************)
C6_NoDecodeOfNullTree ==
    ~(mode = "decompress" /\ pc = "d_decode" /\ tree = NULL)

(***************************************************************************)
(* C7  Decoder stops at the marker: the bits read so far are the codes of  *)
(* the symbols put out so far, none of them PSEUDO_EOF, followed by the    *)
(* path from the root to the current node; and once the current node is    *)
(* the leaf of PSEUDO_EOF no bit is read and no symbol is put out any more.*)
(***************************************************************************)
C7_Decoded ==
    (pc \in {"d_loop", "d_free"} /\ tree # NULL /\ node # NULL) =>
        LET map == buildEncodingMap(heap, tree)
        IN  /\ \A i \in 1..Len(output) :
                   /\ ToChar(output[i]) \in DOMAIN map
                   /\ ToChar(output[i]) # PSEUDO_EOF
            /\ \E k \in 0..bitPos :
                   /\ SubSeq(dBits, 1, k) = ConcatCodes(map, output, 1)
                   /\ node = Walk(heap, tree, SubSeq(dBits, k + 1, bitPos))

C7_AtMarker ==
    /\ mode = "decompress"
    /\ node # NULL
    /\ heap[node].character = PSEUDO_EOF

C7_StopsAtMarker ==
    /\ []C7_Decoded
    /\ [][C7_AtMarker => (bitPos' = bitPos /\ output' = output)]_vars

C7_Witness ==
    /\ pc = "d_free"
    /\ C7_AtMarker
    /\ Len(output) >= 2
    /\ bitPos < Len(dBits)
    /\ \E i \in (bitPos + 1)..Len(dBits) : dBits[i] = 1

(***************************************************************************)
(* C8  Encoder consistency failure: encodeData does not go on past an      *)
(* input symbol that has no entry in the code table writeBits looks it up  *)
(* in.                                                                     *)
(***************************************************************************)
C8_MissingCodeStops ==
    (mode = "compress" /\ pc \in {"c_encode", "c_free", "c_done"}) =>
        \A i \in 1..inPos : ToChar(input[i]) \in DOMAIN encodingMap

(***************************************************************************)
(* C9  Code length follows frequency.  As claimed: every symbol with the   *)
(* highest count has a code no longer than that of every symbol with the   *)
(* lowest count.  As amended: the same, for tables whose highest count is  *)
(* greater than their lowest count.                                        *)
(***************************************************************************)
C9_FrequentIsShorter ==
    \A x, y \in DOMAIN freqTable :
        (freqTable[x] = MaxCount /\ freqTable[y] = MinCount)
            => Len(localMap[x]) <= Len(localMap[y])

C9_Original ==
    (MapBuilt /\ Cardinality(DOMAIN freqTable) >= 2) => C9_FrequentIsShorter

C9_Amended ==
    (MapBuilt /\ Cardinality(DOMAIN freqTable) >= 2 /\ MaxCount > MinCount)
        => C9_FrequentIsShorter

C9_Witness ==
    /\ MapBuilt
    /\ Cardinality(DOMAIN freqTable) >= 3
    /\ MaxCount > MinCount
    /\ \E x, y \in DOMAIN freqTable : Len(localMap[x]) < Len(localMap[y])

(***************************************************************************)
(* C10  Tree well-formedness: while the tree is built and as long as it    *)
(* lives, every node is a leaf (no child, a symbol of the table and its    *)
(* count) or an internal node (two children, NOT_A_CHAR, the sum of its    *)
(* children's counts); a merge makes the node dequeued first the zero      *)
(* child and the node dequeued second the one child; and for a non-empty   *)
(* table buildTree ends with one node in the queue, whose count is the sum *)
(* of the table's counts and whose leaves are the table's entries.         *)
(***************************************************************************)
C10_NodeOk(a) ==
    \/ /\ heap[a].zero = NULL
       /\ heap[a].one = NULL
       /\ heap[a].character \in DOMAIN freqTable
       /\ heap[a].count = freqTable[heap[a].character]
    \/ /\ heap[a].zero # NULL
       /\ heap[a].one # NULL
       /\ heap[heap[a].zero].used
       /\ heap[heap[a].one].used
       /\ heap[a].character = NOT_A_CHAR
       /\ heap[a].count = heap[heap[a].zero].count + heap[heap[a].one].count

C10_Leaves(root) ==
    {n \in Shape(heap, root, << >>) : n.character # NOT_A_CHAR}

C10_RootOk ==
    (pc = "merge" /\ Len(queue) <= 1 /\ freqTable # EmptyMap) =>
        /\ Len(queue) = 1
        /\ heap[Front(queue)].count = SumCounts(freqTable, DOMAIN freqTable)
        /\ {<<n.character, n.count>> : n \in C10_Leaves(Front(queue))}
             = {<<k, freqTable[k]>> : k \in DOMAIN freqTable}
        /\ Cardinality(C10_Leaves(Front(queue))) = Cardinality(DOMAIN freqTable)

C10_Nodes ==
    (Building \/ TreeAlive) =>
        /\ \A a \in DOMAIN heap : heap[a].used => C10_NodeOk(a)
        /\ C10_RootOk

C10_MergeOrder ==
    (pc = "merge" /\ Len(queue) >= 2 /\ heap' # heap) =>
        \E p \in DOMAIN heap :
            /\ ~heap[p].used
            /\ heap'[p].used
            /\ heap'[p].zero = queue[1].value
            /\ heap'[p].one = queue[2].value
            /\ \A a \in DOMAIN heap \ {p} : heap'[a] = heap[a]

C10_TreeWellFormed == []C10_Nodes /\ [][C10_MergeOrder]_vars

C10_Witness ==
    /\ pc = "merge"
    /\ Len(queue) = 1
    /\ Cardinality(DOMAIN freqTable) >= 3
    /\ \E k \in DOMAIN freqTable : freqTable[k] >= 2

====
